---- MODULE Spec2Model ----
(***************************************************************************)
(* A model of Post-processing.py: removal of small connected components    *)
(* from a 3D lesion mask (remove_small_components), the raw-intersection   *)
(* gate (check_intersection), the per-file pipeline (process_nifti_file)   *)
(* and the directory batch (delete_existing_new_files, main).              *)
(*                                                                         *)
(* Numbers.  Voxel values are integers (0 background, 1 the usual          *)
(* foreground, -1 a nonzero value that is not positive).  Spacings and     *)
(* radii are rationals <<numerator, denominator>> with a positive          *)
(* denominator; comparisons are done by cross-multiplication, so the       *)
(* arithmetic is exact.  np.pi is the rational PiNum / PiDen (355/113):    *)
(* TLC's integers are 32 bits wide, which rules out the 53-bit mantissa.   *)
(* Rounding of the float products is not modelled.                         *)
(***************************************************************************)
EXTENDS Integers, Sequences, FiniteSets, TLC

(***************************************************************************)
(* Bounds of the model.                                                    *)
(***************************************************************************)
\* The grid is NX x 2 x 2 voxels.
NX == 2
\* A grid handed to remove_small_components has at most MaxFg nonzero voxels.
MaxFg == 3
\* A tumor file holds a grid with at most MaxTumorFg nonzero voxels.
MaxTumorFg == 2

Shape == <<NX, 2, 2>>
Voxels == (0 .. Shape[1] - 1) \X (0 .. Shape[2] - 1) \X (0 .. Shape[3] - 1)
Values == {-1, 0, 1}

\* The sets of at most k elements of S.
RECURSIVE UpTo(_, _)
UpTo(S, k) ==
    IF k = 0 THEN {{}}
    ELSE LET P == UpTo(S, k - 1) IN P \cup {s \cup {v} : s \in P, v \in S}

\* The grids whose nonzero voxels are S, every assignment of 1 and -1 to them.
GridsOn(S) ==
    {[v \in Voxels |-> IF v \in S THEN f[v] ELSE 0] : f \in [S -> {-1, 1}]}

\* All grids over Values with at most k nonzero voxels.
GridsUpTo(k) == UNION {GridsOn(S) : S \in UpTo(Voxels, k)}

Abs(i) == IF i < 0 THEN -i ELSE i

(***************************************************************************)
(* Rationals.                                                              *)
(***************************************************************************)
PiNum == 355
PiDen == 113

Cube(i) == i * i * i

\* A strict comparison where the code's is inclusive.
RatGt(a, b) == a[1] * b[2] > b[1] * a[2]

\* a >= b for rationals with positive denominators.
RatGeq(a, b) == a[1] * b[2] >= b[1] * a[2]

\* The (spacing, min_radius) pairs the function is called with:
\*   1 x 2 x 4 mm with radius 1.5: two voxels (16) pass 14.137, one (8) does not;
\*   1 x 1 x 1 mm with radius 1: five voxels are needed, only background has them;
\*   710/339 x 1 x 1 mm with radius 1: 710/339 is half of (4/3) * PiNum / PiDen,
\*     so a component of two voxels has exactly the minimum volume;
\*   a negative radius, and a zero spacing.
Parameters ==
    { [spacing |-> << <<1, 1>>, <<2, 1>>, <<4, 1>> >>,     min_radius |-> <<3, 2>>],
      [spacing |-> << <<1, 1>>, <<1, 1>>, <<1, 1>> >>,     min_radius |-> <<1, 1>>],
      [spacing |-> << <<710, 339>>, <<1, 1>>, <<1, 1>> >>, min_radius |-> <<1, 1>>],
      [spacing |-> << <<1, 1>>, <<2, 1>>, <<4, 1>> >>,     min_radius |-> <<-1, 1>>],
      [spacing |-> << <<0, 1>>, <<1, 1>>, <<1, 1>> >>,     min_radius |-> <<3, 2>>] }

\* process_nifti_file's default min_radius=1.5
DefaultMinRadius == <<3, 2>>

(***************************************************************************)
(* scipy.ndimage.label with its default structuring element                *)
(* (generate_binary_structure(3, 1): the six face neighbours).             *)
(***************************************************************************)
\* Position of a voxel in the C-ordered ravel() of the array.
RavelIndex(v) == (v[1] * Shape[2] + v[2]) * Shape[3] + v[3]

\* The 26-neighbourhood (diagonal steps allowed) instead of the six faces.
AdjacentWithDiagonals(u, v) ==
    /\ u # v
    /\ \A a \in 1 .. 3 : Abs(u[a] - v[a]) <= 1

Adjacent(u, v) == Abs(u[1] - v[1]) + Abs(u[2] - v[2]) + Abs(u[3] - v[3]) = 1

\* The foreground voxels reachable from S by face steps.
RECURSIVE Flood(_, _)
Flood(fg, S) ==
    LET T == S \cup {v \in fg : \E u \in S : Adjacent(u, v)}
    IN  IF T = S THEN S ELSE Flood(fg, T)

\* Components are numbered 1, 2, ... in the order the raster scan meets them.
RECURSIVE Scan(_, _, _, _)
Scan(fg, todo, lab, n) ==
    IF todo = {} THEN [labeled_array |-> lab, num_features |-> n]
    ELSE LET seed == CHOOSE v \in todo : \A w \in todo : RavelIndex(v) <= RavelIndex(w)
             comp == Flood(fg, {seed})
         IN  Scan(fg, todo \ comp,
                  [v \in Voxels |-> IF v \in comp THEN n + 1 ELSE lab[v]], n + 1)

label(input) ==
    LET fg == {v \in Voxels : input[v] # 0}
    IN  Scan(fg, fg, [v \in Voxels |-> 0], 0)

\* np.bincount(labeled_array.ravel()): one count per label 0 .. max label.
bincount(labeled) ==
    LET top == CHOOSE m \in {labeled[v] : v \in Voxels} :
                   \A v \in Voxels : labeled[v] <= m
    IN  [l \in 0 .. top |-> Cardinality({v \in Voxels : labeled[v] = l})]

\* spacing[0] * spacing[1] * spacing[2]
voxel_volume(sp) ==
    <<sp[1][1] * sp[2][1] * sp[3][1], sp[1][2] * sp[2][2] * sp[3][2]>>

\* (4/3) * np.pi * (min_radius ** 3)
min_volume(r) == <<4 * PiNum * Cube(r[1]), 3 * PiDen * Cube(r[2])>>

\* The mask without the line "mask[0] = 0".
component_mask_with_background(sizes, sp, r) ==
    LET vv == voxel_volume(sp)
    IN  [l \in DOMAIN sizes |-> RatGeq(<<sizes[l] * vv[1], vv[2]>>, min_volume(r))]

\* component_volumes >= min_volume, then mask[0] = 0
component_mask(sizes, sp, r) ==
    LET vv == voxel_volume(sp)
    IN  [l \in DOMAIN sizes |->
            IF l = 0 THEN FALSE
            ELSE RatGeq(<<sizes[l] * vv[1], vv[2]>>, min_volume(r))]

remove_small_components(d, sp, r) ==
    LET lab   == label(d)
        sizes == bincount(lab.labeled_array)
        mask  == component_mask(sizes, sp, r)
    IN  [labeled_array |-> lab.labeled_array,
         num_features  |-> lab.num_features,
         cleaned_data  |-> [v \in Voxels |-> mask[lab.labeled_array[v]]]]

\* A boolean array read as numbers (True is 1, False is 0).
AsNumbers(b) == [v \in Voxels |-> IF b[v] THEN 1 ELSE 0]

(***************************************************************************)
(* check_intersection and process_nifti_file.                              *)
(***************************************************************************)
\* Python's None: the empty tuple, which no grid, name or number equals.
None == <<>>

\* The gate with the organ tested for "nonzero" instead of "> 0".
check_intersection_organ_nonzero(tumor, organ) ==
    \E v \in Voxels : tumor[v] > 0 /\ organ[v] # 0

\* The gate without the tumor's side of the test.
check_intersection_organ_only(tumor, organ) ==
    \E v \in Voxels : organ[v] > 0

\* np.any((tumor_data > 0) & (organ_data > 0))
check_intersection(tumor, organ) ==
    \E v \in Voxels : tumor[v] > 0 /\ organ[v] > 0

\* process_nifti_file without the test for an all-zero result.
process_nifti_file_unchecked(d, sp, r) ==
    LET res == remove_small_components(d, sp, r)
    IN  res @@ [returned |-> res.cleaned_data]

\* The try block of process_nifti_file for a file that loads: the filter's
\* locals and the value returned, cleaned_data if np.any(cleaned_data > 0)
\* (True > 0 holds, False > 0 does not) and None otherwise.
process_nifti_file(d, sp, r) ==
    LET res == remove_small_components(d, sp, r)
    IN  res @@ [returned |->
                   IF \E v \in Voxels : res.cleaned_data[v]
                   THEN res.cleaned_data ELSE None]

(***************************************************************************)
(* File names.  A name is a sequence of tokens, cut wherever one of the    *)
(* patterns of the code ('_tumor.nii.gz', '_new.nii.gz', '.nii.gz',        *)
(* 'liver_tumor', ...) begins or ends, so that the tests on tokens are the *)
(* tests on characters.                                                    *)
(***************************************************************************)
NiiGz == ".nii.gz"

LiverFile == <<"liver", NiiGz>>
PancreasFile == <<"pancreas", NiiGz>>
KidneyFile == <<"kidney", NiiGz>>
LiverTumorFile == <<"liver", "_tumor", NiiGz>>
PancreasTumorFile == <<"pancreas", "_tumor", NiiGz>>
KidneyTumorFile == <<"kidney", "_tumor", NiiGz>>
SpleenTumorFile == <<"spleen", "_tumor", NiiGz>>

\* str.endswith
EndsWith(name, suffix) ==
    /\ Len(name) >= Len(suffix)
    /\ SubSeq(name, Len(name) - Len(suffix) + 1, Len(name)) = suffix

\* the operator "in" on strings
Contains(name, part) ==
    \E i \in 1 .. Len(name) - Len(part) + 1 :
        SubSeq(name, i, i + Len(part) - 1) = part

\* str.replace(old, new) for a pattern old of one token
RECURSIVE Replace(_, _, _)
Replace(name, old, new) ==
    IF name = <<>> THEN <<>>
    ELSE (IF Head(name) = old THEN new ELSE <<Head(name)>>)
             \o Replace(Tail(name), old, new)

\* What delete_existing_new_files looks for.
StaleSuffix == <<"_new", NiiGz>>

\* A suffix that matches what main writes.
WrittenSuffix == <<"_new77777", NiiGz>>

\* file.endswith('_new.nii.gz')
is_existing_new_file(name) == EndsWith(name, StaleSuffix)

\* file.replace('.nii.gz', '_new77777.nii.gz')
output_file_name(file) == Replace(file, NiiGz, <<"_new77777", NiiGz>>)

\* The if/elif chain of main: the organ file of a tumor file, None if unknown.
organ_file_name(file) ==
    IF Contains(file, <<"liver", "_tumor">>) THEN LiverFile
    ELSE IF Contains(file, <<"pancreas", "_tumor">>) THEN PancreasFile
    ELSE IF Contains(file, <<"kidney", "_tumor">>) THEN KidneyFile
    ELSE None

\* The files delete_existing_new_files leaves in place.
delete_existing_new_files(dir) == {f \in dir : ~is_existing_new_file(f)}

\* The base directory before the first run: two tumors with their organ, a
\* tumor whose organ file is missing, a tumor of an unknown organ, and an
\* output left by an earlier version of the script.
InitialDirectory ==
    { LiverFile, LiverTumorFile, KidneyFile, KidneyTumorFile,
      PancreasTumorFile, SpleenTumorFile,
      <<"liver", "_tumor", "_new", NiiGz>> }

InputFiles ==
    { LiverFile, LiverTumorFile, KidneyFile, KidneyTumorFile,
      PancreasTumorFile, SpleenTumorFile }

\* The order in which os.walk lists the directory (the model fixes one).
ListingOrder ==
    << LiverFile, LiverTumorFile, output_file_name(LiverTumorFile),
       <<"liver", "_tumor", "_new", NiiGz>>,
       SpleenTumorFile, PancreasTumorFile,
       KidneyFile, KidneyTumorFile, output_file_name(KidneyTumorFile) >>

InDirectory(dir) == LET Present(f) == f \in dir IN SelectSeq(ListingOrder, Present)

\* What the files hold.  A tumor grid has at most MaxTumorFg nonzero voxels;
\* an organ grid is empty or has one nonzero voxel.
TumorGrids == GridsUpTo(MaxTumorFg)
OrganGrids == GridsOn({}) \cup UNION {GridsOn({v}) : v \in Voxels}
\* header.get_zooms() of the tumor file
HeaderZooms ==
    { << <<1, 1>>, <<2, 1>>, <<4, 1>> >>,
      << <<1, 1>>, <<1, 1>>, <<1, 1>> >> }

(***************************************************************************)
(* State.                                                                  *)
(***************************************************************************)
VARIABLES
    pc,             \* position of the running call
    data,           \* remove_small_components: argument data
    spacing,        \* spacing of the tumor image / argument spacing
    min_radius,     \* remove_small_components: argument min_radius
    labeled_array,  \* remove_small_components: labels of the last call
    num_features,   \* remove_small_components: number of components
    cleaned_data,   \* remove_small_components: value returned by the last call
    first_cleaned,  \* value returned by the first of two chained calls
    fs,             \* main: the names of the files in base_dir
    files,          \* main: the files of the walk not yet visited
    file,           \* main: the file being handled
    organ_data,     \* main: organ_img.get_fdata()
    tumor_data,     \* main: tumor_img.get_fdata()
    intersects,     \* main: value of check_intersection(tumor_data, organ_data)
    processed_data, \* main: first value returned by process_nifti_file
    saved_data,     \* main: the data of the image handed to nib.save
    report          \* main: the message printed for each tumor file of this run

filterVars == <<data, spacing, min_radius, labeled_array, num_features,
                cleaned_data, first_cleaned>>
itemVars == <<organ_data, tumor_data, intersects, processed_data, saved_data>>
walkVars == <<fs, files, file, report>>

vars == <<pc, filterVars, itemVars, walkVars>>

(***************************************************************************)
(* SpecFilter: remove_small_components called on every bounded input, and  *)
(* called again on its own result.                                         *)
(***************************************************************************)
InitFilter ==
    /\ pc = "rsc_entry"
    /\ data \in GridsUpTo(MaxFg)
    /\ \E p \in Parameters :
          /\ spacing = p.spacing
          /\ min_radius = p.min_radius
    /\ labeled_array = None
    /\ num_features = None
    /\ cleaned_data = None
    /\ first_cleaned = None
    /\ fs = {}
    /\ files = <<>>
    /\ file = None
    /\ organ_data = None
    /\ tumor_data = None
    /\ intersects = None
    /\ processed_data = None
    /\ saved_data = None
    /\ report = <<>>

CallRemoveSmallComponents ==
    /\ pc = "rsc_entry"
    /\ LET r == remove_small_components(data, spacing, min_radius)
       IN  /\ labeled_array' = r.labeled_array
           /\ num_features' = r.num_features
           /\ cleaned_data' = r.cleaned_data
    /\ pc' = "rsc_returned"
    /\ UNCHANGED <<data, spacing, min_radius, first_cleaned, itemVars, walkVars>>

\* The caller feeds the returned mask back in, spacing and radius unchanged.
CallAgainOnResult ==
    /\ pc = "rsc_returned"
    /\ first_cleaned' = cleaned_data
    /\ data' = AsNumbers(cleaned_data)
    /\ LET r == remove_small_components(data', spacing, min_radius)
       IN  /\ labeled_array' = r.labeled_array
           /\ num_features' = r.num_features
           /\ cleaned_data' = r.cleaned_data
    /\ pc' = "rsc_returned_again"
    /\ UNCHANGED <<spacing, min_radius, itemVars, walkVars>>

NextFilter == CallRemoveSmallComponents \/ CallAgainOnResult

SpecFilter == InitFilter /\ [][NextFilter]_vars

(***************************************************************************)
(* main.  One run is: delete_existing_new_files, the listing of the        *)
(* directory, and one pass of the loop body per listed file.  The locals   *)
(* of a pass are cleared when the next file is taken: no later pass reads  *)
(* them before assigning them.  A file holds the same grid every time it   *)
(* is loaded within a pass.                                                *)
(***************************************************************************)
TumorSuffix == <<"_tumor", NiiGz>>

NoLocals ==
    /\ organ_data' = None
    /\ tumor_data' = None
    /\ intersects' = None
    /\ processed_data' = None
    /\ saved_data' = None
    /\ data' = None
    /\ spacing' = None
    /\ min_radius' = None
    /\ labeled_array' = None
    /\ num_features' = None
    /\ cleaned_data' = None

Printed(msg) == report' = (file :> msg) @@ report

\* Lines 54-63 and 69.  os.remove is taken to succeed (its failure is caught
\* and printed, and leaves the file in place).
DeleteExistingNewFiles ==
    /\ pc = "main_entry"
    /\ fs' = delete_existing_new_files(fs)
    /\ pc' = "walk"
    /\ UNCHANGED <<filterVars, itemVars, files, file, report>>

\* Line 71: os.walk lists base_dir.
WalkDirectory ==
    /\ pc = "walk"
    /\ files' = InDirectory(fs)
    /\ pc' = "for_file"
    /\ UNCHANGED <<filterVars, itemVars, fs, file, report>>

\* Lines 72-74: the next file; only names ending in '_tumor.nii.gz' go on.
NextFile ==
    /\ pc = "for_file"
    /\ files # <<>>
    /\ file' = Head(files)
    /\ files' = Tail(files)
    /\ pc' = IF EndsWith(Head(files), TumorSuffix) THEN "classify" ELSE "for_file"
    /\ NoLocals
    /\ UNCHANGED <<first_cleaned, fs, report>>

\* Lines 83-85.
UnknownOrgan ==
    /\ pc = "classify"
    /\ organ_file_name(file) = None
    /\ Printed("Unknown organ")
    /\ pc' = "for_file"
    /\ UNCHANGED <<filterVars, itemVars, fs, files, file>>

\* Lines 87, 107-108.
OrganNotFound ==
    /\ pc = "classify"
    /\ organ_file_name(file) # None
    /\ organ_file_name(file) \notin fs
    /\ Printed("Organ file not found")
    /\ pc' = "for_file"
    /\ UNCHANGED <<filterVars, itemVars, fs, files, file>>

\* Lines 87-89, the organ file loads.
LoadOrgan ==
    /\ pc = "classify"
    /\ organ_file_name(file) \in fs
    /\ organ_data' \in OrganGrids
    /\ pc' = "load_tumor"
    /\ UNCHANGED <<filterVars, tumor_data, intersects, processed_data, saved_data,
                   walkVars>>

\* Lines 88-89, nib.load or get_fdata raises: nothing in main catches it.
LoadOrganRaises ==
    /\ pc = "classify"
    /\ organ_file_name(file) \in fs
    /\ pc' = "crashed"
    /\ UNCHANGED <<filterVars, itemVars, walkVars>>

\* Lines 92-93, the tumor file loads; its header carries the spacing.
LoadTumor ==
    /\ pc = "load_tumor"
    /\ tumor_data' \in TumorGrids
    /\ spacing' \in HeaderZooms
    /\ pc' = "check"
    /\ UNCHANGED <<data, min_radius, labeled_array, num_features, cleaned_data,
                   first_cleaned, organ_data, intersects, processed_data,
                   saved_data, walkVars>>

\* Lines 92-93, nib.load or get_fdata raises.
LoadTumorRaises ==
    /\ pc = "load_tumor"
    /\ pc' = "crashed"
    /\ UNCHANGED <<filterVars, itemVars, walkVars>>

\* Line 95, the call.
CheckIntersection ==
    /\ pc = "check"
    /\ intersects' = check_intersection(tumor_data, organ_data)
    /\ pc' = "gate"
    /\ UNCHANGED <<filterVars, organ_data, tumor_data, processed_data, saved_data,
                   walkVars>>

\* Lines 95-96 and 32-45: process_nifti_file(tumor_file_path), default radius.
ProcessNiftiFile ==
    /\ pc = "gate"
    /\ intersects
    /\ LET r == process_nifti_file(tumor_data, spacing, DefaultMinRadius)
       IN  /\ data' = tumor_data
           /\ min_radius' = DefaultMinRadius
           /\ labeled_array' = r.labeled_array
           /\ num_features' = r.num_features
           /\ cleaned_data' = r.cleaned_data
           /\ processed_data' = r.returned
    /\ pc' = "result"
    /\ UNCHANGED <<spacing, first_cleaned, organ_data, tumor_data, intersects,
                   saved_data, walkVars>>

\* Lines 46-48: the load inside process_nifti_file raises, which is caught.
ProcessNiftiFileRaises ==
    /\ pc = "gate"
    /\ intersects
    /\ processed_data' = None
    /\ pc' = "result"
    /\ UNCHANGED <<filterVars, organ_data, tumor_data, intersects, saved_data,
                   walkVars>>

\* Lines 105-106.
ReportNoIntersection ==
    /\ pc = "gate"
    /\ ~intersects
    /\ Printed("No intersection found")
    /\ pc' = "for_file"
    /\ UNCHANGED <<filterVars, itemVars, fs, files, file>>

\* Lines 98-102.
SaveOutput ==
    /\ pc = "result"
    /\ processed_data # None
    /\ saved_data' = processed_data
    /\ fs' = fs \cup {output_file_name(file)}
    /\ Printed("Processed and saved")
    /\ pc' = "for_file"
    /\ UNCHANGED <<filterVars, organ_data, tumor_data, intersects, processed_data,
                   files, file>>

\* Line 101, nib.save raises.
SaveRaises ==
    /\ pc = "result"
    /\ processed_data # None
    /\ pc' = "crashed"
    /\ UNCHANGED <<filterVars, itemVars, walkVars>>

\* Lines 103-104.
ReportNoMask ==
    /\ pc = "result"
    /\ processed_data = None
    /\ Printed("No mask found")
    /\ pc' = "for_file"
    /\ UNCHANGED <<filterVars, itemVars, fs, files, file>>

\* The loop ends and main returns.
FinishRun ==
    /\ pc = "for_file"
    /\ files = <<>>
    /\ pc' = "finished"
    /\ UNCHANGED <<filterVars, itemVars, walkVars>>

\* The script is started again on the directory as the last run left it.
RunAgain ==
    /\ pc \in {"finished", "crashed"}
    /\ pc' = "main_entry"
    /\ files' = <<>>
    /\ file' = None
    /\ report' = <<>>
    /\ NoLocals
    /\ UNCHANGED <<first_cleaned, fs>>

(***************************************************************************)
(* Spec: runs of main on the base directory.                               *)
(***************************************************************************)
Init ==
    /\ pc = "main_entry"
    /\ fs = InitialDirectory
    /\ files = <<>>
    /\ file = None
    /\ report = <<>>
    /\ organ_data = None
    /\ tumor_data = None
    /\ intersects = None
    /\ processed_data = None
    /\ saved_data = None
    /\ data = None
    /\ spacing = None
    /\ min_radius = None
    /\ labeled_array = None
    /\ num_features = None
    /\ cleaned_data = None
    /\ first_cleaned = None

Next ==
    \/ DeleteExistingNewFiles
    \/ WalkDirectory
    \/ NextFile
    \/ UnknownOrgan
    \/ OrganNotFound
    \/ LoadOrgan
    \/ LoadOrganRaises
    \/ LoadTumor
    \/ LoadTumorRaises
    \/ CheckIntersection
    \/ ProcessNiftiFile
    \/ ProcessNiftiFileRaises
    \/ ReportNoIntersection
    \/ SaveOutput
    \/ SaveRaises
    \/ ReportNoMask
    \/ FinishRun
    \/ RunAgain

Spec == Init /\ [][Next]_vars

(***************************************************************************)
(* SpecRuns: runs of main in which no load and no save fails.              *)
(***************************************************************************)
NextRuns ==
    \/ DeleteExistingNewFiles
    \/ WalkDirectory
    \/ NextFile
    \/ UnknownOrgan
    \/ OrganNotFound
    \/ LoadOrgan
    \/ LoadTumor
    \/ CheckIntersection
    \/ ProcessNiftiFile
    \/ ReportNoIntersection
    \/ SaveOutput
    \/ ReportNoMask
    \/ FinishRun
    \/ RunAgain

SpecRuns == Init /\ [][NextRuns]_vars

(***************************************************************************)
(* SpecItem: the loop body of main for one tumor file whose organ file     *)
(* exists, every pair of grids the two files can hold, no failing load or  *)
(* save.                                                                   *)
(***************************************************************************)
InitItem ==
    /\ pc = "classify"
    /\ fs = InputFiles
    /\ files = <<>>
    /\ file = LiverTumorFile
    /\ report = <<>>
    /\ organ_data = None
    /\ tumor_data = None
    /\ intersects = None
    /\ processed_data = None
    /\ saved_data = None
    /\ data = None
    /\ spacing = None
    /\ min_radius = None
    /\ labeled_array = None
    /\ num_features = None
    /\ cleaned_data = None
    /\ first_cleaned = None

NextItem ==
    \/ LoadOrgan
    \/ LoadTumor
    \/ CheckIntersection
    \/ ProcessNiftiFile
    \/ ReportNoIntersection
    \/ SaveOutput
    \/ ReportNoMask

SpecItem == InitItem /\ [][NextItem]_vars

(***************************************************************************)
(* Properties of remove_small_components (SpecFilter).                     *)
(***************************************************************************)
Returned == pc \in {"rsc_returned", "rsc_returned_again"}

PositiveParameters ==
    /\ \A a \in 1 .. 3 : spacing[a][1] > 0
    /\ min_radius[1] > 0

\* Number of voxels carrying the label of voxel v.
CountOfLabelAt(v) == Cardinality({w \in Voxels : labeled_array[w] = labeled_array[v]})

\* count * sx * sy * sz >= (4/3) * pi * min_radius^3, cross-multiplied.
VolumeReaches(count) ==
    3 * PiDen * Cube(min_radius[2]) * count
        * spacing[1][1] * spacing[2][1] * spacing[3][1]
    >= 4 * PiNum * Cube(min_radius[1])
        * spacing[1][2] * spacing[2][2] * spacing[3][2]

VolumeEquals(count) ==
    3 * PiDen * Cube(min_radius[2]) * count
        * spacing[1][1] * spacing[2][1] * spacing[3][1]
    = 4 * PiNum * Cube(min_radius[1])
        * spacing[1][2] * spacing[2][2] * spacing[3][2]

\* C2: with positive spacing and positive min_radius, a voxel is true in the
\* returned mask iff its label is not 0 and the volume of its component
\* (voxel count times sx*sy*sz) is at least (4/3)*pi*min_radius^3; the bound is
\* inclusive, a component is kept or removed as a whole, and background is
\* never in the output.
C2_VolumeFilter ==
    (Returned /\ PositiveParameters) =>
        /\ \A v \in Voxels :
              cleaned_data[v] <=>
                  (labeled_array[v] # 0 /\ VolumeReaches(CountOfLabelAt(v)))
        /\ \A u, v \in Voxels :
              (labeled_array[u] = labeled_array[v]) => (cleaned_data[u] = cleaned_data[v])
        /\ \A v \in Voxels : (data[v] = 0) => ~cleaned_data[v]

\* A component exactly at the threshold is kept, one a voxel smaller is
\* removed, and the background alone would pass the threshold.
C2_Witness ==
    /\ pc = "rsc_returned"
    /\ PositiveParameters
    /\ \E u, v \in Voxels :
          /\ VolumeEquals(CountOfLabelAt(u)) /\ cleaned_data[u]
          /\ labeled_array[v] # 0
          /\ CountOfLabelAt(v) = CountOfLabelAt(u) - 1 /\ ~cleaned_data[v]
    /\ \E b \in Voxels : labeled_array[b] = 0 /\ VolumeReaches(CountOfLabelAt(b))

\* One unit along exactly one axis, the other two coordinates equal.
OneAxisUnitStep(u, v) ==
    \E a \in 1 .. 3 :
        /\ Abs(u[a] - v[a]) = 1
        /\ \A b \in (1 .. 3) \ {a} : u[b] = v[b]

\* The voxels a path of nonzero voxels leads to from the set S.
RECURSIVE PathReach(_)
PathReach(S) ==
    LET T == S \cup {v \in Voxels : data[v] # 0 /\ \E u \in S : OneAxisUnitStep(u, v)}
    IN  IF T = S THEN S ELSE PathReach(T)

RECURSIVE SumOver(_, _)
SumOver(f, D) ==
    IF D = {} THEN 0
    ELSE LET d == CHOOSE x \in D : TRUE IN f[d] + SumOver(f, D \ {d})

\* C3: a voxel has label 0 iff its value is zero; two nonzero voxels have the
\* same positive label iff a path of nonzero voxels joins them by unit steps
\* along one axis at a time; the per-label counts sum to the number of voxels
\* and, label 0 left out, to the number of nonzero voxels.
C3_Labeling ==
    Returned =>
        /\ \A v \in Voxels : (labeled_array[v] = 0) <=> (data[v] = 0)
        /\ \A v \in Voxels : labeled_array[v] \in 0 .. num_features
        /\ \A u \in {x \in Voxels : data[x] # 0} :
              LET joined == PathReach({u})
              IN  \A v \in {x \in Voxels : data[x] # 0} :
                      (labeled_array[u] = labeled_array[v]) <=> (v \in joined)
        /\ LET sizes == bincount(labeled_array)
           IN  /\ SumOver(sizes, DOMAIN sizes) = Cardinality(Voxels)
               /\ SumOver(sizes, (DOMAIN sizes) \ {0})
                      = Cardinality({v \in Voxels : data[v] # 0})

\* Two nonzero voxels that touch only diagonally, one of them negative, in
\* different components, and a third joined to the first by a face.
C3_Witness ==
    /\ pc = "rsc_returned"
    /\ num_features = 2
    /\ \E u, v, w \in Voxels :
          /\ data[u] = -1 /\ data[v] = 1 /\ data[w] # 0 /\ w # u
          /\ AdjacentWithDiagonals(u, v) /\ ~OneAxisUnitStep(u, v)
          /\ labeled_array[u] # labeled_array[v]
          /\ labeled_array[w] = labeled_array[u]

\* C10: remove_small_components applied to its own result, with the same
\* spacing and min_radius, returns that result again.
C10_Idempotent ==
    (pc = "rsc_returned_again") => (cleaned_data = first_cleaned)

\* A second call on a mask that is not empty: its one component passes the
\* threshold again.
C10_Witness ==
    /\ pc = "rsc_returned_again"
    /\ \E v \in Voxels : first_cleaned[v]
    /\ num_features = 1
    /\ spacing = << <<1, 1>>, <<2, 1>>, <<4, 1>> >>
    /\ min_radius = DefaultMinRadius

\* C7: a call with a non-positive spacing component or a non-positive
\* min_radius ends in an error: it never returns a mask.
C7_InvalidInputRejected ==
    ~(Returned /\ ~PositiveParameters)

(***************************************************************************)
(* Properties of the loop body of main (SpecItem).                         *)
(***************************************************************************)
\* The pass for the current file has printed its message.
ItemDone == pc = "for_file" /\ file \in DOMAIN report

\* Some coordinate is positive in the tumor grid and in the organ grid.
RawOverlap == \E v \in Voxels : tumor_data[v] > 0 /\ organ_data[v] > 0

\* The tumor grid filtered with the spacing of its header and radius 1.5.
Filtered == remove_small_components(tumor_data, spacing, DefaultMinRadius)

AnyTrue(m) == \E v \in Voxels : m[v]

\* C1: the file is accepted (its output saved) iff the raw tumor grid overlaps
\* the organ grid and the filtered mask has a true voxel; without overlap the
\* message is "No intersection found" and neither labeling nor filtering has
\* run; with overlap and an all-false filtered mask the message is "No mask
\* found"; on accept the data saved is the filtered boolean mask.
C1_PolicyP1 ==
    ItemDone =>
        /\ (report[file] = "Processed and saved")
               <=> (RawOverlap /\ AnyTrue(Filtered.cleaned_data))
        /\ ~RawOverlap =>
               /\ report[file] = "No intersection found"
               /\ labeled_array = None /\ cleaned_data = None
               /\ processed_data = None
        /\ (RawOverlap /\ ~AnyTrue(Filtered.cleaned_data)) =>
               /\ report[file] = "No mask found"
               /\ saved_data = None
               /\ output_file_name(file) \notin fs
        /\ (report[file] = "Processed and saved") =>
               /\ saved_data = Filtered.cleaned_data
               /\ output_file_name(file) \in fs

\* An accepted file.
C1_Witness ==
    /\ ItemDone
    /\ report[file] = "Processed and saved"
    /\ AnyTrue(saved_data)
    /\ RawOverlap

\* A one-iteration binary dilation with the full 3 x 3 x 3 element.
Dilate(m) ==
    [v \in Voxels |->
        \E u \in Voxels : m[u] # 0 /\ \A a \in 1 .. 3 : Abs(u[a] - v[a]) <= 1]

\* Every value of the grid is 0 or 1.
IsBinary(g) == \A v \in Voxels : g[v] \in {0, 1}

\* C4: for a binary tumor next to, but not on, a binary organ: when the
\* filtered mask is not empty and meets the organ mask dilated once by the
\* 3 x 3 x 3 element, the file is accepted (policy P2) and the undilated
\* filtered mask is what is saved.
C4_PolicyP2 ==
    (/\ ItemDone
     /\ IsBinary(tumor_data) /\ IsBinary(organ_data)
     /\ ~RawOverlap
     /\ AnyTrue(Filtered.cleaned_data)
     /\ \E v \in Voxels : Filtered.cleaned_data[v] /\ Dilate(organ_data)[v])
    => (/\ report[file] = "Processed and saved"
        /\ saved_data = Filtered.cleaned_data)

AllZero(g) == \A v \in Voxels : g[v] = 0

\* C5 as stated: an all-zero tumor grid is rejected with the size-filtering
\* message.
C5_RejectedAsNoMask ==
    (ItemDone /\ AllZero(tumor_data)) => (report[file] = "No mask found")

\* C5 amended: an all-zero tumor grid has zero components and an all-false
\* filtered mask, and main rejects it at the intersection gate, with "No
\* intersection found", before any labeling.
C5_RejectedAtGate ==
    (ItemDone /\ AllZero(tumor_data)) =>
        /\ report[file] = "No intersection found"
        /\ labeled_array = None
        /\ Filtered.num_features = 0
        /\ ~AnyTrue(Filtered.cleaned_data)

\* An all-zero tumor next to an organ that is not empty.
C5_Witness ==
    /\ ItemDone
    /\ AllZero(tumor_data)
    /\ \E v \in Voxels : organ_data[v] > 0

\* C9 as stated: the result is true iff some coordinate is nonzero in both.
C9_NonzeroInBoth ==
    (pc = "gate") =>
        (intersects <=> \E v \in Voxels : tumor_data[v] # 0 /\ organ_data[v] # 0)

\* C9 amended: the result is true iff some coordinate is positive (> 0) in
\* both grids, it is the same with the arguments exchanged, and the call
\* changes neither grid.
C9_PositiveInBoth ==
    /\ [](pc = "gate" =>
            /\ intersects <=> RawOverlap
            /\ intersects = check_intersection(organ_data, tumor_data))
    /\ [][pc = "check" => (tumor_data' = tumor_data /\ organ_data' = organ_data)]_vars

\* A negative tumor voxel on a positive organ voxel: no intersection.
C9_Witness ==
    /\ pc = "gate"
    /\ ~intersects
    /\ \E v \in Voxels : tumor_data[v] < 0 /\ organ_data[v] > 0

(***************************************************************************)
(* Properties of the runs of main (Spec, SpecRuns).                        *)
(***************************************************************************)
\* C6: a failure on one file does not end the run: when main stops, no tumor
\* file of the listing is left unvisited.
C6_RunVisitsEveryItem ==
    (pc \in {"crashed", "finished"}) =>
        \A i \in 1 .. Len(files) : ~EndsWith(files[i], TumorSuffix)

\* The files in the directory that are not inputs.
GeneratedOutputs == fs \ InputFiles

WrittenThisRun ==
    {output_file_name(f) : f \in {g \in DOMAIN report : report[g] = "Processed and saved"}}

\* C8: after the cleanup at the start of a run no generated output is left,
\* and when a run ends the generated outputs present are those it wrote.
C8_OnlyLatestOutputs ==
    /\ (pc = "walk") => (GeneratedOutputs = {})
    /\ (pc = "finished") => (GeneratedOutputs = WrittenThisRun)

====
